---- MODULE Spec2Model ----
(***************************************************************************)
(* The terminal application state machine of funkhunt: TuiState, its      *)
(* FileBrowser and the key-event router of src/tui/events.rs.              *)
(*                                                                         *)
(* A file name is the tuple of its byte codes ("A" is <<65>>), so that     *)
(* String::cmp and starts_with('.') are computed, not assumed.  A path is  *)
(* the tuple of its components below the root: "/" is <<>>, "/A/B" is      *)
(* <<<<65>>, <<66>>>>.  Indices are 0-based as in the source; TLA+ tuples  *)
(* are 1-based, so element i of a Vec v is v[i + 1].                       *)
(***************************************************************************)
EXTENDS Integers, Sequences, FiniteSets, TLC

VARIABLES
    state,     \* the TuiState the event loop owns
    prev,      \* the TuiState as it was when the last step began
    key,       \* the KeyCode handled by the last step (NoKey: none)
    call,      \* the FileBrowser method the last step called directly
    ret,       \* what handle_key_event returned in the last step
    opened,    \* the book Book::open was called on during the last step
    reloaded,  \* whether load_entries ran during the last step
    popup_new, \* whether the step before the last was 'a' handled in Normal mode
    fs,        \* which filesystem snapshot is on disk
    main,      \* the locals of main() in src/main.rs and where it stands
    scan,      \* a call of scan_epubs: its location, the tree on disk, its result
    config     \* the command line, the Config parsed from it and the books scanned

vars == <<state, prev, key, call, ret, opened, reloaded, popup_new, fs, main, scan,
          config>>

\* what the terminal interface never touches: the variables of main(), of
\* scan_epubs and of Config
outside == <<main, scan, config>>

\* main(), scan_epubs or Config is not being run
Idle == [pc |-> "idle"]

----------------------------------------------------------------------------
(* Option<T> *)

None == [some |-> FALSE]

Some(x) == [some |-> TRUE, val |-> x]

----------------------------------------------------------------------------
(* File names and paths *)

DOT == 46

nA == <<65>>

nB == <<66>>

na == <<97>>

nb == <<98>>

nc == <<99>>

nf == <<102>>

nz == <<122>>

nGit == <<DOT, 103>>

\* two names that are not UTF-8: the single bytes 0xFF and 0xFE
nFF == <<255>>

nFE == <<254>>

nHid == <<DOT, 104>>

Root == <<>>

\* the component ".."
DotDot == <<DOT, DOT>>

\* the empty path: it has no component, not even the root, and leads
\* nowhere; written as the one path whose only component is the empty name,
\* which no directory holds
EmptyPath == <<<<>>>>

\* Path::join of a directory and a file name (DirEntry::path)
join(dir, name) == Append(dir, name)

\* Path::parent: None at the root and for the empty path, else the path
\* without its last component
parent(p) ==
    IF p = Root \/ p = EmptyPath THEN None ELSE Some(SubSeq(p, 1, Len(p) - 1))

\* str::starts_with('.')
starts_with_dot(name) == Len(name) > 0 /\ name[1] = DOT

\* usize::saturating_sub
saturating_sub(a, b) == IF a >= b THEN a - b ELSE 0

\* Vec::get with a 0-based index
get(v, i) == IF i < Len(v) THEN Some(v[i + 1]) ELSE None

----------------------------------------------------------------------------
(* The filesystem: what std::fs::read_dir yields for a path, in the order  *)
(* the operating system returns the children (not sorted).  A child of     *)
(* kind "ioerr" is an Err item; the iterator ends after it, so it is the   *)
(* last item of its listing.                                               *)

Child(name, kind) == [name |-> name, kind |-> kind]

Denied == [ok |-> FALSE, children |-> <<>>]

Dir(children) == [ok |-> TRUE, children |-> children]

FS1 ==
    (Root :> Dir(<<Child(nb, "dir"), Child(nA, "dir"), Child(nGit, "dir"),
                   Child(nc, "dir"), Child(nf, "file")>>))
    @@ (<<nA>> :> Dir(<<Child(na, "dir"), Child(nB, "dir"), Child(nf, "file")>>))
    @@ (<<nb>> :> Dir(<<>>))
    @@ (<<nc>> :> Denied)
    @@ (<<nA, nB>> :> Dir(<<>>))
    @@ (<<nA, na>> :> Dir(<<Child(nHid, "dir")>>))

FS2 ==
    (Root :> Dir(<<Child(nc, "dir"), Child(nA, "file")>>))
    @@ (<<nc>> :> Dir(<<Child(na, "dir"), Child(nA, "dir")>>))
    @@ (<<nc, na>> :> Dir(<<>>))
    @@ (<<nc, nA>> :> Dir(<<>>))

FS3 ==
    (Root :> Dir(<<Child(nA, "nometa"), Child(nb, "dir"), Child(nc, "ioerr")>>))
    @@ (<<nb>> :> Dir(<<Child(nb, "dir"), Child(nFF, "dir"), Child(nFE, "dir")>>))
    @@ (<<nb, nb>> :> Dir(<<>>))
    @@ (<<nb, nFF>> :> Dir(<<>>))
    @@ (<<nb, nFE>> :> Dir(<<>>))

FileSystems == <<FS1, FS2, FS3>>

FsIds == 1..Len(FileSystems)

RECURSIVE resolve_from(_, _, _)

\* how the system looks a path up on the disk t: from r, one component of
\* rest at a time; ".." leads to the parent (the root is its own parent), a
\* name leads to the child of that name; none if a name is missing or a
\* component is looked up in something that is not a directory
resolve_from(t, r, rest) ==
    LET up == IF r = Root THEN Root ELSE SubSeq(r, 1, Len(r) - 1)
        directory ==
            \/ r \in DOMAIN t
            \/ /\ r # Root
               /\ up \in DOMAIN t
               /\ \E i \in 1..Len(t[up].children) :
                     t[up].children[i] = Child(r[Len(r)], "dir")
    IN  IF rest = <<>> THEN Some(r)
        ELSE IF ~directory THEN None
        ELSE IF Head(rest) = DotDot THEN resolve_from(t, up, Tail(rest))
        ELSE IF /\ r \in DOMAIN t
                /\ \E i \in 1..Len(t[r].children) :
                      t[r].children[i].name = Head(rest)
             THEN resolve_from(t, join(r, Head(rest)), Tail(rest))
        ELSE None

\* the file or directory a path leads to, from the root
resolve(t, p) == resolve_from(t, Root, p)

\* std::fs::read_dir: the listing of the directory the path leads to; Err for
\* a missing path, a file, or an unreadable directory
read_dir(f, p) ==
    LET r == resolve(FileSystems[f], p)
    IN  IF r.some /\ r.val \in DOMAIN FileSystems[f]
        THEN FileSystems[f][r.val]
        ELSE Denied

\* the values of $HOME the browser may start from: unset, a directory, a
\* missing path, the empty string, and a directory named by way of ".."
Homes == {None, Some(<<nA>>), Some(<<nz>>), Some(EmptyPath), Some(<<nA, DotDot>>)}

----------------------------------------------------------------------------
(* FileBrowser (src/tui/state.rs) *)

\* struct DirEntry
DirEntry(name, path, is_dir) == [name |-> name, path |-> path, is_dir |-> is_dir]

\* struct FileBrowser
FileBrowser(current_path, entries, selected_index) ==
    [current_path |-> current_path, entries |-> entries,
     selected_index |-> selected_index]

\* String::cmp: byte-wise lexicographic order, a proper prefix first
cmp(a, b) ==
    LET m == IF Len(a) < Len(b) THEN Len(a) ELSE Len(b)
        diff == {i \in 1..m : a[i] # b[i]}
    IN  IF diff # {}
        THEN LET i == CHOOSE i \in diff : \A j \in diff : i <= j
             IN  IF a[i] < b[i] THEN "Less" ELSE "Greater"
        ELSE IF Len(a) < Len(b) THEN "Less"
        ELSE IF Len(a) > Len(b) THEN "Greater"
        ELSE "Equal"

\* u8::to_ascii_lowercase
to_ascii_lowercase(ch) == IF ch >= 65 /\ ch <= 90 THEN ch + 32 ELSE ch

\* a mutant of by_name: the names are compared ignoring ASCII case
by_name_ignore_case(a, b) ==
    cmp([i \in 1..Len(a.name) |-> to_ascii_lowercase(a.name[i])],
        [i \in 1..Len(b.name) |-> to_ascii_lowercase(b.name[i])])

\* the comparator given to sort_by: |a, b| a.name.cmp(&b.name)
by_name(a, b) == cmp(a.name, b.name)

\* one insertion of a stable sort: e goes after every element not greater than it
RECURSIVE insert_sorted(_, _)
insert_sorted(e, sorted) ==
    IF sorted = <<>> THEN <<e>>
    ELSE IF by_name(e, Head(sorted)) = "Less" THEN <<e>> \o sorted
    ELSE <<Head(sorted)>> \o insert_sorted(e, Tail(sorted))

\* Vec::sort_by (stable)
RECURSIVE sort_by(_)
sort_by(v) ==
    IF v = <<>> THEN <<>>
    ELSE insert_sorted(v[Len(v)], sort_by(SubSeq(v, 1, Len(v) - 1)))

\* the UTF-8 encoding of U+FFFD, the replacement character
REPLACEMENT == <<239, 191, 189>>

\* may b follow the lead byte of a UTF-8 sequence as its second byte?
second_byte_ok(lead, b) ==
    CASE lead = 224 -> b >= 160 /\ b <= 191
      [] lead = 237 -> b >= 128 /\ b <= 159
      [] lead = 240 -> b >= 144 /\ b <= 191
      [] lead = 244 -> b >= 128 /\ b <= 143
      [] OTHER -> b >= 128 /\ b <= 191

\* a continuation byte
is_continuation(b) == b >= 128 /\ b <= 191

\* the UTF-8 sequence that starts at s[i]: whether it is valid, and how many
\* bytes it takes (for an invalid one, the bytes one replacement stands for)
utf8_chunk(s, i) ==
    LET b == s[i]
        width == IF b < 128 THEN 1
                 ELSE IF b >= 194 /\ b <= 223 THEN 2
                 ELSE IF b >= 224 /\ b <= 239 THEN 3
                 ELSE IF b >= 240 /\ b <= 244 THEN 4
                 ELSE 0
        has(k) == i + k <= Len(s)
    IN  IF width = 1 THEN [valid |-> TRUE, len |-> 1]
        ELSE IF width = 0 \/ ~has(1) \/ ~second_byte_ok(b, s[i + 1])
             THEN [valid |-> FALSE, len |-> 1]
        ELSE IF width = 2 THEN [valid |-> TRUE, len |-> 2]
        ELSE IF ~has(2) \/ ~is_continuation(s[i + 2])
             THEN [valid |-> FALSE, len |-> 2]
        ELSE IF width = 3 THEN [valid |-> TRUE, len |-> 3]
        ELSE IF ~has(3) \/ ~is_continuation(s[i + 3])
             THEN [valid |-> FALSE, len |-> 3]
        ELSE [valid |-> TRUE, len |-> 4]

RECURSIVE lossy_from(_, _)

\* String::from_utf8_lossy from position i on
lossy_from(s, i) ==
    IF i > Len(s) THEN <<>>
    ELSE LET c == utf8_chunk(s, i)
         IN  (IF c.valid THEN SubSeq(s, i, i + c.len - 1) ELSE REPLACEMENT)
             \o lossy_from(s, i + c.len)

\* OsStr::to_string_lossy: every invalid sequence becomes U+FFFD
to_string_lossy(s) == lossy_from(s, 1)

\* a mutant of collect: the hidden-name test is missing
RECURSIVE collect_keeps_hidden(_, _)
collect_keeps_hidden(children, dir) ==
    IF children = <<>> THEN <<>>
    ELSE LET c == Head(children)
             rest == collect_keeps_hidden(Tail(children), dir)
         IN  IF c.kind = "ioerr" THEN <<>>
             ELSE IF c.kind = "nometa" THEN rest
             ELSE IF c.kind = "dir"
                  THEN <<DirEntry(to_string_lossy(c.name), join(dir, c.name), TRUE)>>
                       \o rest
             ELSE rest

\* the for loop of load_entries: what the children add to entries.  The
\* iterator ends at the first read error, so flatten() sees nothing after it.
RECURSIVE collect(_, _)
collect(children, dir) ==
    IF children = <<>> THEN <<>>
    ELSE LET c == Head(children)
             rest == collect(Tail(children), dir)
             name == to_string_lossy(c.name)
         IN  IF c.kind = "ioerr" THEN <<>>              \* Err, then the end
             ELSE IF c.kind = "nometa" THEN rest        \* entry.metadata() is Err
             ELSE IF starts_with_dot(name) THEN rest    \* continue
             ELSE IF c.kind = "dir"                     \* metadata.is_dir()
                  THEN <<DirEntry(name, join(dir, c.name), TRUE)>> \o rest
             ELSE rest

\* a mutant of load_entries: the old entries are cleared only once read_dir
\* has succeeded
load_entries_keeps_stale(b, f) ==
    LET listing == read_dir(f, b.current_path)
    IN  IF listing.ok
        THEN FileBrowser(b.current_path,
                         sort_by(collect(listing.children, b.current_path)), 0)
        ELSE FileBrowser(b.current_path, b.entries, 0)

\* a mutant of load_entries: the cursor is not reset
load_entries_keeps_cursor(b, f) ==
    LET listing == read_dir(f, b.current_path)
        pushed == IF listing.ok THEN collect(listing.children, b.current_path)
                  ELSE <<>>
    IN  FileBrowser(b.current_path, sort_by(pushed), b.selected_index)

\* FileBrowser::load_entries
load_entries(b, f) ==
    LET listing == read_dir(f, b.current_path)
        pushed == IF listing.ok THEN collect(listing.children, b.current_path)
                  ELSE <<>>
    IN  FileBrowser(b.current_path, sort_by(pushed), 0)

\* FileBrowser::new, given the value of $HOME
FileBrowser_new(home, f) ==
    LET start == IF home.some THEN home.val ELSE Root
    IN  load_entries(FileBrowser(start, <<>>, 0), f)

\* a mutant of move_up: at the top the cursor wraps to the last entry
move_up_wraps(b) ==
    IF b.selected_index > 0
    THEN [b EXCEPT !.selected_index = b.selected_index - 1]
    ELSE [b EXCEPT !.selected_index = saturating_sub(Len(b.entries), 1)]

\* FileBrowser::move_up
move_up(b) ==
    IF b.selected_index > 0
    THEN [b EXCEPT !.selected_index = b.selected_index - 1]
    ELSE b

\* a mutant of move_down: the bound is the length, not the last index
move_down_unclamped(b) ==
    IF b.selected_index < Len(b.entries)
    THEN [b EXCEPT !.selected_index = b.selected_index + 1]
    ELSE b

\* FileBrowser::move_down
move_down(b) ==
    IF b.selected_index < saturating_sub(Len(b.entries), 1)
    THEN [b EXCEPT !.selected_index = b.selected_index + 1]
    ELSE b

\* the directory enter_selected moves into: the entry at the cursor, if it
\* exists and is a directory
enter_target(b) ==
    LET entry == get(b.entries, b.selected_index)
    IN  IF entry.some /\ entry.val.is_dir THEN Some(entry.val.path) ELSE None

\* a mutant of enter_selected: the browser moves only into a directory that
\* can be read
enter_selected_if_readable(b, f) ==
    LET target == enter_target(b)
    IN  IF target.some /\ read_dir(f, target.val).ok
        THEN load_entries([b EXCEPT !.current_path = target.val], f)
        ELSE b

\* a mutant of enter_selected: current_path moves but the entries are not
\* reloaded
enter_selected_no_reload(b, f) ==
    LET target == enter_target(b)
    IN  IF target.some THEN [b EXCEPT !.current_path = target.val] ELSE b

\* FileBrowser::enter_selected
enter_selected(b, f) ==
    LET target == enter_target(b)
    IN  IF target.some
        THEN load_entries([b EXCEPT !.current_path = target.val], f)
        ELSE b

\* FileBrowser::go_up
go_up(b, f) ==
    LET up == parent(b.current_path)
    IN  IF up.some
        THEN load_entries([b EXCEPT !.current_path = up.val], f)
        ELSE b

----------------------------------------------------------------------------
(* TuiState (src/tui/state.rs) *)

\* struct Book
Book(name, path) == [name |-> name, path |-> path]

\* struct TuiState
TuiState(books, selected_index, should_quit, scan_paths, mode, browser) ==
    [books |-> books, selected_index |-> selected_index,
     should_quit |-> should_quit, scan_paths |-> scan_paths,
     mode |-> mode, browser |-> browser]

\* enum UiMode
UiMode == {"Normal", "AddingFolder"}

\* enum AppAction
AddFolder(path) == [tag |-> "AddFolder", path |-> path]

\* a mutant of TuiState_new: the selection starts on the last book
TuiState_new_selects_last(books, scan_paths, home, f) ==
    TuiState(books, saturating_sub(Len(books), 1), FALSE, scan_paths, "Normal",
             FileBrowser_new(home, f))

\* TuiState::new, given the value of $HOME that FileBrowser::new reads
TuiState_new(books, scan_paths, home, f) ==
    TuiState(books, 0, FALSE, scan_paths, "Normal", FileBrowser_new(home, f))

\* a mutant of selected_book: the lookup ignores the cursor
selected_book_first(s) == get(s.books, 0)

\* TuiState::selected_book
selected_book(s) == get(s.books, s.selected_index)

\* TuiState::move_selection_up
move_selection_up(s) ==
    IF s.selected_index > 0
    THEN [s EXCEPT !.selected_index = s.selected_index - 1]
    ELSE s

\* a mutant of move_selection_down: the bound is the length, not the last index
move_selection_down_unclamped(s) ==
    IF s.selected_index < Len(s.books)
    THEN [s EXCEPT !.selected_index = s.selected_index + 1]
    ELSE s

\* TuiState::move_selection_down
move_selection_down(s) ==
    IF s.selected_index < saturating_sub(Len(s.books), 1)
    THEN [s EXCEPT !.selected_index = s.selected_index + 1]
    ELSE s

----------------------------------------------------------------------------
(* The key-event router (src/tui/events.rs).  A handler's outcome is the   *)
(* state it leaves, the Option<AppAction> it returns, the book it called   *)
(* Book::open on (a process spawn), and whether it ran load_entries.       *)

\* the KeyCode values the handlers tell apart; "x" is any key with no binding
Keys == {"q", "Up", "Down", "Enter", "a", "Right", "l", "Left", "h", "Esc", "x"}

NoKey == "none"

Outcome(s, r, o, l) == [state |-> s, ret |-> r, opened |-> o, reloaded |-> l]

\* a mutant of normal_q: 'q' toggles the flag instead of setting it
normal_q_toggles(s) ==
    Outcome([s EXCEPT !.should_quit = ~s.should_quit], None, None, FALSE)

\* a mutant of normal_q: quitting also puts the selection back on the first book
normal_q_resets_selection(s) ==
    Outcome([s EXCEPT !.should_quit = TRUE, !.selected_index = 0],
            None, None, FALSE)

\* handle_normal_mode, KeyCode::Char('q')
normal_q(s) == Outcome([s EXCEPT !.should_quit = TRUE], None, None, FALSE)

\* a mutant of normal_enter: opens the first book, not the selected one
normal_enter_first(s) == Outcome(s, None, get(s.books, 0), FALSE)

\* a mutant of normal_enter: the Enter arm of the popup handler, pasted here
normal_enter_adds(s) ==
    Outcome([s EXCEPT !.mode = "Normal"],
            Some(AddFolder(s.browser.current_path)), selected_book(s), FALSE)

\* handle_normal_mode, KeyCode::Enter:
\* if let Some(book) = state.selected_book() { let _ = book.open(); }
normal_enter(s) == Outcome(s, None, selected_book(s), FALSE)

\* a mutant of normal_a: the popup opens without reloading the browser
normal_a_no_reload(s, f) ==
    Outcome([s EXCEPT !.mode = "AddingFolder"], None, None, FALSE)

\* a mutant of normal_a: the popup always opens on the root directory
normal_a_from_root(s, f) ==
    Outcome([s EXCEPT !.mode = "AddingFolder",
                      !.browser = load_entries([s.browser EXCEPT !.current_path = Root], f)],
            None, None, TRUE)

\* handle_normal_mode, KeyCode::Char('a')
normal_a(s, f) ==
    Outcome([s EXCEPT !.mode = "AddingFolder",
                      !.browser = load_entries(s.browser, f)],
            None, None, TRUE)

\* handle_normal_mode
handle_normal_mode(k, s, f) ==
    CASE k = "q" -> normal_q(s)
      [] k = "Up" -> Outcome(move_selection_up(s), None, None, FALSE)
      [] k = "Down" -> Outcome(move_selection_down(s), None, None, FALSE)
      [] k = "Enter" -> normal_enter(s)
      [] k = "a" -> normal_a(s, f)
      [] OTHER -> Outcome(s, None, None, FALSE)

\* a mutant of adding_enter: confirm adds the highlighted sub-directory
adding_enter_selected(s) ==
    LET target == enter_target(s.browser)
    IN  Outcome([s EXCEPT !.mode = "Normal"],
                Some(AddFolder(IF target.some THEN target.val
                               ELSE s.browser.current_path)),
                None, FALSE)

\* a mutant of adding_enter: confirm also records the path in scan_paths
adding_enter_records_path(s) ==
    Outcome([s EXCEPT !.mode = "Normal",
                      !.scan_paths = Append(s.scan_paths, s.browser.current_path)],
            Some(AddFolder(s.browser.current_path)), None, FALSE)

\* handle_adding_folder_mode, KeyCode::Enter
adding_enter(s) ==
    Outcome([s EXCEPT !.mode = "Normal"],
            Some(AddFolder(s.browser.current_path)), None, FALSE)

\* a mutant of adding_right: descending also closes the popup
adding_right_closes(s, f) ==
    Outcome([s EXCEPT !.mode = "Normal",
                      !.browser = enter_selected(s.browser, f)],
            None, None, enter_target(s.browser).some)

\* handle_adding_folder_mode, KeyCode::Right | KeyCode::Char('l')
adding_right(s, f) ==
    Outcome([s EXCEPT !.browser = enter_selected(s.browser, f)],
            None, None, enter_target(s.browser).some)

\* handle_adding_folder_mode, KeyCode::Left | KeyCode::Char('h')
adding_left(s, f) ==
    Outcome([s EXCEPT !.browser = go_up(s.browser, f)],
            None, None, parent(s.browser.current_path).some)

\* a mutant of adding_esc: cancel returns the action that confirm returns
adding_esc_confirms(s) ==
    Outcome([s EXCEPT !.mode = "Normal"],
            Some(AddFolder(s.browser.current_path)), None, FALSE)

\* a mutant of adding_esc: cancel sends the browser back to the root
adding_esc_resets_browser(s) ==
    Outcome([s EXCEPT !.mode = "Normal",
                      !.browser = FileBrowser(Root, <<>>, 0)], None, None, FALSE)

\* a mutant of adding_esc: cancel leaves the popup open
adding_esc_stays(s) == Outcome(s, None, None, FALSE)

\* handle_adding_folder_mode, KeyCode::Esc
adding_esc(s) == Outcome([s EXCEPT !.mode = "Normal"], None, None, FALSE)

\* handle_adding_folder_mode
handle_adding_folder_mode(k, s, f) ==
    CASE k = "Up" ->
            Outcome([s EXCEPT !.browser = move_up(s.browser)], None, None, FALSE)
      [] k = "Down" ->
            Outcome([s EXCEPT !.browser = move_down(s.browser)], None, None, FALSE)
      [] k = "Enter" -> adding_enter(s)
      [] k \in {"Right", "l"} -> adding_right(s, f)
      [] k \in {"Left", "h"} -> adding_left(s, f)
      [] k = "Esc" -> adding_esc(s)
      [] OTHER -> Outcome(s, None, None, FALSE)

\* a mutant of handle_key_event: 'q' quits in every mode
handle_key_event_quits_anywhere(k, s, f) ==
    IF k = "q" THEN normal_q(s)
    ELSE CASE s.mode = "Normal" -> handle_normal_mode(k, s, f)
           [] s.mode = "AddingFolder" -> handle_adding_folder_mode(k, s, f)

\* handle_key_event
handle_key_event(k, s, f) ==
    CASE s.mode = "Normal" -> handle_normal_mode(k, s, f)
      [] s.mode = "AddingFolder" -> handle_adding_folder_mode(k, s, f)

----------------------------------------------------------------------------
(* The inputs of TuiState::new *)

MaxBooks == 3

\* the i-th book of the catalogue handed to TuiState::new
BookAt(i) == Book(<<48 + i>>, <<nz, <<48 + i>>>>)

\* a catalogue of n books
Catalogue(n) == [i \in 1..n |-> BookAt(i)]

\* the scan paths that go with it: one scanned location, or none for no books
ScanPaths(n) == IF n = 0 THEN <<>> ELSE <<<<nz>>>>

----------------------------------------------------------------------------
(* The state machine *)

Init ==
    /\ fs \in FsIds
    /\ \E n \in 0..MaxBooks, home \in Homes :
          state = TuiState_new(Catalogue(n), ScanPaths(n), home, fs)
    /\ prev = state
    /\ key = NoKey
    /\ call = "new"
    /\ ret = None
    /\ opened = None
    /\ reloaded = TRUE
    /\ popup_new = FALSE
    /\ main = Idle
    /\ scan = Idle
    /\ config = Idle

\* the event loop hands one key event to handle_key_event
HandleKey(k) ==
    LET out == handle_key_event(k, state, fs)
    IN  /\ state' = out.state
        /\ prev' = state
        /\ key' = k
        /\ call' = "handle_key_event"
        /\ ret' = out.ret
        /\ opened' = out.opened
        /\ reloaded' = out.reloaded
        /\ popup_new' = (key = "a" /\ prev.mode = "Normal")
        /\ UNCHANGED <<fs, outside>>

KeyEvent == \E k \in Keys : HandleKey(k)

\* the world outside the process changes the directories on disk
FsChange ==
    /\ \E f \in FsIds : f # fs /\ fs' = f
    /\ prev' = state
    /\ key' = NoKey
    /\ call' = "none"
    /\ ret' = None
    /\ opened' = None
    /\ reloaded' = FALSE
    /\ popup_new' = (key = "a" /\ prev.mode = "Normal")
    /\ UNCHANGED <<state, outside>>

Next == KeyEvent \/ FsChange

Spec == Init /\ [][Next]_vars

----------------------------------------------------------------------------
(* The FileBrowser driven directly, one method call per step, as its       *)
(* public methods allow (every field and method of FileBrowser is pub).    *)

\* a step that calls one FileBrowser method on state.browser
BrowserCall(name, b, loads) ==
    /\ state' = [state EXCEPT !.browser = b]
    /\ prev' = state
    /\ key' = NoKey
    /\ call' = name
    /\ ret' = None
    /\ opened' = None
    /\ reloaded' = loads
    /\ popup_new' = (key = "a" /\ prev.mode = "Normal")
    /\ UNCHANGED <<fs, outside>>

CallLoadEntries ==
    BrowserCall("load_entries", load_entries(state.browser, fs), TRUE)

CallMoveUp == BrowserCall("move_up", move_up(state.browser), FALSE)

CallMoveDown == BrowserCall("move_down", move_down(state.browser), FALSE)

CallEnterSelected ==
    BrowserCall("enter_selected", enter_selected(state.browser, fs),
                enter_target(state.browser).some)

CallGoUp ==
    BrowserCall("go_up", go_up(state.browser, fs),
                parent(state.browser.current_path).some)

BrowserNext ==
    \/ CallLoadEntries
    \/ CallMoveUp
    \/ CallMoveDown
    \/ CallEnterSelected
    \/ CallGoUp
    \/ FsChange

BrowserSpec == Init /\ [][BrowserNext]_vars

----------------------------------------------------------------------------
(* Claims C1 to C10 *)

\* C1: in every state reached from TuiState::new by key events, selected_index
\* is below books.len() when there are books, and is 0 when there are none.
C1_SelectedIndexInBounds ==
    /\ state.selected_index \in Nat
    /\ IF Len(state.books) = 0
       THEN state.selected_index = 0
       ELSE state.selected_index < Len(state.books)

\* C1 witness: Down was pressed in Normal mode with the last book selected
C1_DownAtLastBook ==
    /\ key = "Down"
    /\ prev.mode = "Normal"
    /\ Len(prev.books) > 1
    /\ prev.selected_index = Len(prev.books) - 1

\* C2: in every state reached from FileBrowser::new by calls of load_entries,
\* move_up, move_down, enter_selected and go_up, with the directories free to
\* change between reloads, the browser cursor is below entries.len() when there
\* are entries, and is 0 when there are none.
C2_BrowserCursorInBounds ==
    /\ state.browser.selected_index \in Nat
    /\ IF Len(state.browser.entries) = 0
       THEN state.browser.selected_index = 0
       ELSE state.browser.selected_index < Len(state.browser.entries)

\* C2 witness: a reload found fewer entries than the index the cursor was at
C2_ReloadShrinksBelowCursor ==
    /\ call = "load_entries"
    /\ prev.browser.selected_index > 0
    /\ Len(state.browser.entries) <= prev.browser.selected_index

\* the (mode, key) pairs on which the router changes the mode, with the new mode
ModeChanges ==
    {<<"Normal", "a", "AddingFolder">>,
     <<"AddingFolder", "Enter", "Normal">>,
     <<"AddingFolder", "Esc", "Normal">>}

\* C3: every key event in every mode yields a defined next state, and the mode
\* changes exactly on (Normal, 'a'), (AddingFolder, Enter) and (AddingFolder,
\* Esc); every other event leaves the mode as it was.
C3_ModeTransitions ==
    key \in Keys =>
        /\ prev.mode \in UiMode
        /\ state.mode \in UiMode
        /\ IF \E t \in ModeChanges : t[1] = prev.mode /\ t[2] = key
           THEN <<prev.mode, key, state.mode>> \in ModeChanges
           ELSE state.mode = prev.mode

\* C3 witness: the descend key moved the browser into a directory and the popup
\* stayed open
C3_DescendStaysInPopup ==
    /\ key \in {"Right", "l"}
    /\ prev.mode = "AddingFolder"
    /\ state.mode = "AddingFolder"
    /\ state.browser.current_path # prev.browser.current_path

\* C4: Enter in AddingFolder mode sets the mode to Normal and returns exactly
\* AddFolder(p), p the browser's current_path before the event; the browser's
\* current_path, entries and cursor are unchanged.
C4_ConfirmReturnsCurrentPath ==
    (key = "Enter" /\ prev.mode = "AddingFolder") =>
        /\ state.mode = "Normal"
        /\ ret = Some(AddFolder(prev.browser.current_path))
        /\ state.browser = prev.browser

\* C4 witness: confirm below the root, with the cursor on an entry that is not
\* the first
C4_ConfirmWithCursorMoved ==
    /\ key = "Enter"
    /\ prev.mode = "AddingFolder"
    /\ prev.browser.current_path # Root
    /\ prev.browser.selected_index > 0
    /\ ret # None

\* C5: handle_key_event returns at most one action, and returns one only for
\* Enter in AddingFolder mode; every other event returns None.
C5_ActionOnlyOnConfirm ==
    key \in Keys =>
        /\ ret.some <=> (prev.mode = "AddingFolder" /\ key = "Enter")
        /\ ret.some => ret.val.tag = "AddFolder"

\* C5 witness: Enter in Normal mode opened a book and still returned None
C5_NormalEnterReturnsNone ==
    /\ key = "Enter"
    /\ prev.mode = "Normal"
    /\ opened # None
    /\ ret = None

\* C6 as stated: no key event makes the router itself start a process; the
\* request to open the selected book is only ever a returned Action.
C6_RouterNeverOpensInPlace == key \in Keys => opened = None

\* C6 as amended: the router calls Book::open in place exactly on Enter in
\* Normal mode with a book selected, on that book, and returns None there; the
\* only effect it returns as an Action is the AddFolder scan request.
C6_OpenInPlaceOnNormalEnter ==
    key \in Keys =>
        /\ opened.some <=>
              (prev.mode = "Normal" /\ key = "Enter" /\ selected_book(prev).some)
        /\ opened.some => (opened = selected_book(prev) /\ ret = None)
        /\ ret.some => ret.val.tag = "AddFolder"

\* C6 witness: Enter in Normal mode opened a book that is not the first one
C6_OpenedSelectedBook ==
    /\ key = "Enter"
    /\ prev.mode = "Normal"
    /\ prev.selected_index > 0
    /\ opened = Some(prev.books[prev.selected_index + 1])

\* C7: should_quit is monotonic: once true, no key event in any mode makes it
\* false again.
C7_ShouldQuitMonotonic == [][state.should_quit => state'.should_quit]_vars

\* C7 witness: quit was already requested, and a later key event opened the popup
C7_KeyAfterQuit ==
    /\ prev.should_quit
    /\ key = "a"
    /\ state.mode = "AddingFolder"
    /\ state.should_quit

\* C8: 'a' in Normal mode, whatever the browser cursor was, sets the mode to
\* AddingFolder, reloads the browser and leaves its cursor at 0; Esc right after
\* returns to Normal mode with books and selected_index unchanged and no action.
C8_PopupRoundTrip ==
    /\ (key = "a" /\ prev.mode = "Normal") =>
          /\ state.mode = "AddingFolder"
          /\ reloaded
          /\ state.browser = load_entries(prev.browser, fs)
          /\ state.browser.selected_index = 0
          /\ state.books = prev.books
          /\ state.selected_index = prev.selected_index
          /\ ret = None
    /\ (popup_new /\ key = "Esc") =>
          /\ prev.mode = "AddingFolder"
          /\ state.mode = "Normal"
          /\ state.books = prev.books
          /\ state.selected_index = prev.selected_index
          /\ ret = None

\* C8 witness: Esc right after 'a', with books in the catalogue and a book other
\* than the first selected
C8_CancelRightAfterOpen ==
    /\ popup_new
    /\ key = "Esc"
    /\ state.mode = "Normal"
    /\ state.selected_index > 0

\* C9: with an empty catalogue selected_book() is None, and Enter in Normal mode
\* returns no action, opens no book and leaves the whole state unchanged.
C9_EmptyCatalogueConfirmNoOp ==
    /\ Len(state.books) = 0 => selected_book(state) = None
    /\ (key = "Enter" /\ prev.mode = "Normal" /\ Len(prev.books) = 0) =>
          /\ selected_book(prev) = None
          /\ ret = None
          /\ opened = None
          /\ state = prev

\* C9 witness: Enter was pressed in Normal mode with no books
C9_EnterOnEmptyCatalogue ==
    /\ key = "Enter"
    /\ prev.mode = "Normal"
    /\ Len(prev.books) = 0

\* C10: after any call of load_entries the browser cursor is 0, whatever it was
\* before and whether or not the directory could be read.
C10_ReloadResetsCursor == reloaded => state.browser.selected_index = 0

\* C10 witness: load_entries was called with the cursor off 0 on a directory
\* that can no longer be read
C10_ReloadUnreadableFromMovedCursor ==
    /\ call = "load_entries"
    /\ prev.browser.selected_index > 0
    /\ ~read_dir(fs, state.browser.current_path).ok

----------------------------------------------------------------------------
(* Claims C11 to C20 *)

\* the names of a sequence of DirEntry
entry_names(entries) == {entries[i].name : i \in 1..Len(entries)}

\* what is on disk: a child of kind "dir" is a directory; a child of kind
\* "nometa" is a directory too, one whose metadata() call fails (its parent
\* can be listed but not searched)
is_directory_on_disk(c) == c.kind \in {"dir", "nometa"}

\* the children that read_dir lists for the browser's current_path
listed_children ==
    LET listing == read_dir(fs, state.browser.current_path)
    IN  {listing.children[i] : i \in 1..Len(listing.children)}

\* the paths of a sequence of DirEntry
entry_paths(entries) == {entries[i].path : i \in 1..Len(entries)}

\* C11 as stated: no entry of the browser is hidden or a non-directory, and
\* after load_entries on a readable directory the entries are exactly the
\* non-hidden sub-directories among its direct children.
C11_EntriesAreAllSubdirectories ==
    /\ \A i \in 1..Len(state.browser.entries) :
          /\ ~starts_with_dot(state.browser.entries[i].name)
          /\ state.browser.entries[i].is_dir
    /\ (reloaded /\ read_dir(fs, state.browser.current_path).ok) =>
          entry_paths(state.browser.entries) =
             {join(state.browser.current_path, c.name) :
                 c \in {d \in listed_children :
                           is_directory_on_disk(d) /\ ~starts_with_dot(d.name)}}

\* C11 as amended: no entry of the browser is hidden or a non-directory, and
\* after load_entries on a readable directory the entries are exactly the
\* non-hidden children, among those the listing yields before it ends, whose
\* metadata can be read and says directory, each once, with the child's path
\* and the lossy UTF-8 form of its name; a sub-directory whose metadata
\* cannot be read is left out.
C11_EntriesAreReadableSubdirectories ==
    /\ \A i \in 1..Len(state.browser.entries) :
          /\ ~starts_with_dot(state.browser.entries[i].name)
          /\ state.browser.entries[i].is_dir
    /\ (reloaded /\ read_dir(fs, state.browser.current_path).ok) =>
          /\ entry_paths(state.browser.entries) =
                {join(state.browser.current_path, c.name) :
                    c \in {d \in listed_children :
                              d.kind = "dir" /\ ~starts_with_dot(d.name)}}
          /\ Cardinality(entry_paths(state.browser.entries)) =
                Len(state.browser.entries)
          /\ \A i \in 1..Len(state.browser.entries) :
                LET e == state.browser.entries[i]
                    raw == e.path[Len(e.path)]
                IN  e.name = IF \A k \in 1..Len(raw) : raw[k] < 128
                             THEN raw ELSE REPLACEMENT

\* C11 witness: a reload of a directory that holds a hidden directory and a
\* plain file beside the directories it kept
C11_ReloadFiltered ==
    /\ reloaded
    /\ Len(state.browser.entries) > 1
    /\ \E c \in listed_children : c.kind = "dir" /\ starts_with_dot(c.name)
    /\ \E c \in listed_children : c.kind = "file"

\* byte-wise (ordinal) order of two names, stated without String::cmp: at the
\* first position where they differ a has the smaller byte, or a is a proper
\* prefix of b
ordinal_before(a, b) ==
    \E k \in 1..(Len(a) + 1) :
        /\ k <= Len(b)
        /\ \A j \in 1..(k - 1) : a[j] = b[j]
        /\ (k = Len(a) + 1 \/ a[k] < b[k])

\* the names of the browser's entries, in order
browser_names == [i \in 1..Len(state.browser.entries) |-> state.browser.entries[i].name]

\* C12: the entries are in ascending case-sensitive ordinal order of name
\* (children b, A, c give A, b, c; names that are equal once converted keep
\* their listing order), and loading again from an unchanged directory yields
\* the same entries in the same order.
C12_SortedAndIdempotent ==
    /\ \A i, j \in 1..Len(browser_names) :
          i < j => \/ ordinal_before(browser_names[i], browser_names[j])
                   \/ browser_names[i] = browser_names[j]
    /\ (reloaded /\ entry_names(state.browser.entries) = {nb, nA, nc}) =>
          browser_names = <<nA, nb, nc>>
    /\ reloaded => load_entries(state.browser, fs) = state.browser

\* C12 witness: load_entries called again on a directory whose entries "B" and
\* "a" read_dir lists in the other order, and nothing changed
C12_ReloadKeepsOrder ==
    /\ call = "load_entries"
    /\ prev.browser = state.browser
    /\ browser_names = <<nB, na>>
    /\ read_dir(fs, state.browser.current_path).children[1].name = na

\* C13: load_entries on a current_path that cannot be read (missing, not a
\* directory, permission denied) leaves entries empty and the cursor at 0,
\* returns nothing, and leaves current_path, the mode and the rest of the
\* state as they were.
C13_UnreadableGivesEmpty ==
    (call = "load_entries" /\ ~read_dir(fs, prev.browser.current_path).ok) =>
        /\ state.browser = FileBrowser(prev.browser.current_path, <<>>, 0)
        /\ state = [prev EXCEPT !.browser = state.browser]
        /\ ret = None

\* C13 witness: load_entries was called below the root on a directory that
\* had entries and can no longer be read
C13_ReloadOfVanishedDirectory ==
    /\ call = "load_entries"
    /\ prev.browser.current_path # Root
    /\ Len(prev.browser.entries) > 0
    /\ ~read_dir(fs, prev.browser.current_path).ok
    /\ state.browser.entries = <<>>

\* the directory the last FileBrowser call tried to read, when it tried one
navigation_target ==
    CASE call = "load_entries" -> Some(prev.browser.current_path)
      [] call = "enter_selected" -> enter_target(prev.browser)
      [] call = "go_up" -> parent(prev.browser.current_path)
      [] OTHER -> None

\* C15 as stated: a navigation step (enter_selected, go_up, load_entries) that
\* fails to read its target directory leaves current_path, entries and the
\* cursor as they were before the step.
C15_FailedNavigationLeavesState ==
    (navigation_target.some /\ ~read_dir(fs, navigation_target.val).ok) =>
        state.browser = prev.browser

\* C15 as amended: no method aborts; a navigation step with no target (no entry
\* at the cursor, no parent) leaves the browser unchanged, and one whose target
\* cannot be read still moves there: current_path is the target, entries is
\* empty and the cursor is 0.  The rest of the state is never touched.
C15_FailedNavigationMovesAndEmpties ==
    call \in {"load_entries", "enter_selected", "go_up", "move_up", "move_down"} =>
        /\ state = [prev EXCEPT !.browser = state.browser]
        /\ call \in {"move_up", "move_down"} =>
              /\ state.browser.current_path = prev.browser.current_path
              /\ state.browser.entries = prev.browser.entries
        /\ (call \in {"enter_selected", "go_up"} /\ ~navigation_target.some) =>
              state.browser = prev.browser
        /\ (navigation_target.some /\ ~read_dir(fs, navigation_target.val).ok) =>
              state.browser = FileBrowser(navigation_target.val, <<>>, 0)

\* C15 witness: enter_selected moved into a directory that cannot be read
C15_EnteredUnreadableDirectory ==
    /\ call = "enter_selected"
    /\ navigation_target.some
    /\ ~read_dir(fs, navigation_target.val).ok
    /\ state.browser.current_path # prev.browser.current_path
    /\ Len(prev.browser.entries) > 0
    /\ state.browser.entries = <<>>

\* C16: the state TuiState::new builds has mode Normal, selected_index 0,
\* should_quit false, the books and scan paths it was given, and a browser
\* whose cursor is 0 (on $HOME, or on "/" without one, with its entries loaded).
C16_InitialState ==
    call = "new" =>
        /\ state.mode = "Normal"
        /\ state.selected_index = 0
        /\ state.should_quit = FALSE
        /\ \E n \in 0..MaxBooks :
              /\ state.books = Catalogue(n)
              /\ state.scan_paths = ScanPaths(n)
        /\ state.browser.selected_index = 0
        /\ \E home \in Homes :
              /\ state.browser.current_path = (IF home.some THEN home.val ELSE Root)
              /\ state.browser = load_entries(state.browser, fs)

\* C16 witness: a state just built from several books, with $HOME set to a
\* directory that has sub-directories
C16_BuiltWithBooksAndHome ==
    /\ call = "new"
    /\ Len(state.books) > 1
    /\ state.browser.current_path # Root
    /\ Len(state.browser.entries) > 1

\* C18: 'q' in Normal mode sets should_quit, returns no action, and leaves the
\* mode, books, selected_index, scan_paths and the browser unchanged.
C18_QuitKeyFrame ==
    (key = "q" /\ prev.mode = "Normal") =>
        /\ state.should_quit = TRUE
        /\ ret = None
        /\ opened = None
        /\ ~reloaded
        /\ state.mode = prev.mode
        /\ state.books = prev.books
        /\ state.selected_index = prev.selected_index
        /\ state.scan_paths = prev.scan_paths
        /\ state.browser = prev.browser

\* C18 witness: the first 'q', pressed in Normal mode with a book other than
\* the first selected and the browser cursor moved
C18_FirstQuit ==
    /\ key = "q"
    /\ prev.mode = "Normal"
    /\ ~prev.should_quit
    /\ state.should_quit
    /\ prev.selected_index > 0
    /\ prev.browser.selected_index > 0

----------------------------------------------------------------------------
(* The two cursors driven in lockstep: a catalogue of n books and a browser *)
(* of n entries, both at index 0, take the same up/down steps.              *)

MaxLen == 10

\* n directory entries of "/", in the sorted order load_entries leaves
EntriesOf(n) == [i \in 1..n |-> DirEntry(<<64 + i>>, join(Root, <<64 + i>>), TRUE)]

LockstepInit ==
    /\ fs = 1
    /\ \E n \in 0..MaxLen :
          state = TuiState(Catalogue(n), 0, FALSE, ScanPaths(n), "Normal",
                           FileBrowser(Root, EntriesOf(n), 0))
    /\ prev = state
    /\ key = NoKey
    /\ call = "new"
    /\ ret = None
    /\ opened = None
    /\ reloaded = FALSE
    /\ popup_new = FALSE
    /\ main = Idle
    /\ scan = Idle
    /\ config = Idle

\* a step that applies one catalogue method and one browser method
BothCall(name, s, b) ==
    /\ state' = [s EXCEPT !.browser = b]
    /\ prev' = state
    /\ key' = NoKey
    /\ call' = name
    /\ ret' = None
    /\ opened' = None
    /\ reloaded' = FALSE
    /\ popup_new' = FALSE
    /\ UNCHANGED <<fs, outside>>

\* move_selection_up and move_up
BothUp == BothCall("both_up", move_selection_up(state), move_up(state.browser))

\* move_selection_down and move_down
BothDown ==
    BothCall("both_down", move_selection_down(state), move_down(state.browser))

LockstepNext == BothUp \/ BothDown

LockstepSpec == LockstepInit /\ [][LockstepNext]_vars

\* C17: over lists of the same length, and after the same up/down steps from
\* index 0, the catalogue cursor equals the browser cursor after every step.
C17_SameClamping ==
    /\ Len(state.books) = Len(state.browser.entries)
    /\ state.selected_index = state.browser.selected_index

\* C17 witness: a down step taken with both cursors on the last element of
\* lists of several elements
C17_BothClampedAtEnd ==
    /\ call = "both_down"
    /\ Len(prev.books) > 2
    /\ prev.selected_index = Len(prev.books) - 1
    /\ prev.browser.selected_index = Len(prev.browser.entries) - 1
    /\ state.selected_index = prev.selected_index

(***************************************************************************)
(* main() of src/main.rs: the stand-alone loop over the scanned catalogue. *)
(* Every call followed by `?` either succeeds or makes main return the     *)
(* error at once.                                                          *)
(***************************************************************************)

\* the locals of main() at entry; raw and alt are the terminal's raw mode and
\* alternate screen, last is the step main performed last and was_quit the
\* value of should_quit when that step began
main_entry ==
    [pc |-> "enable_raw", should_quit |-> FALSE, selected |-> 0, books |-> <<>>,
     raw |-> FALSE, alt |-> FALSE, exit |-> "running",
     last |-> "entry", was_quit |-> FALSE]

\* main moves on to pc after performing the step called name
advance(m, name, pc) ==
    [m EXCEPT !.pc = pc, !.last = name, !.was_quit = m.should_quit]

\* the step called name failed: `?` returns the error from main
fail(m, name) ==
    [advance(m, name, "done") EXCEPT !.exit = "err"]

\* a panic ends main: books indexed out of range, or println! unable to write
panic(m, name) ==
    [advance(m, name, "done") EXCEPT !.exit = "panic"]

\* what event::read hands to the match: a key code, or an event that is not a
\* key
MainKeys == {"q", "Up", "Down", "Enter", "x"}

\* a mutant of while_condition: the loop goes on whatever should_quit is
while_condition_ignores_quit(m) ==
    TRUE

\* while !should_quit
while_condition(m) ==
    ~m.should_quit

\* a mutant of main_key: Down is bounded by the length, not the last index
main_key_down_unclamped(k, m) ==
    CASE k = "q" -> [m EXCEPT !.should_quit = TRUE]
      [] k = "Up" ->
            IF m.selected > 0 THEN [m EXCEPT !.selected = m.selected - 1] ELSE m
      [] k = "Down" ->
            IF m.selected < Len(m.books)
            THEN [m EXCEPT !.selected = m.selected + 1]
            ELSE m
      [] OTHER -> m

\* match key.code { ... }
main_key(k, m) ==
    CASE k = "q" -> [m EXCEPT !.should_quit = TRUE]
      [] k = "Up" ->
            IF m.selected > 0 THEN [m EXCEPT !.selected = m.selected - 1] ELSE m
      [] k = "Down" ->
            IF m.selected < saturating_sub(Len(m.books), 1)
            THEN [m EXCEPT !.selected = m.selected + 1]
            ELSE m
      [] OTHER -> m

MainInit ==
    /\ fs = 1
    /\ state = TuiState_new(<<>>, <<>>, None, 1)
    /\ prev = state
    /\ key = NoKey
    /\ call = "main"
    /\ ret = None
    /\ opened = None
    /\ reloaded = FALSE
    /\ popup_new = FALSE
    /\ main = main_entry
    /\ scan = Idle
    /\ config = Idle

\* one step of main: its locals become m, k is the key it handled if any and
\* o the book it opened if any
MainStep(m, k, o) ==
    /\ main' = m
    /\ key' = k
    /\ opened' = o
    /\ UNCHANGED <<state, prev, call, ret, reloaded, popup_new, fs, scan, config>>

MainEnableRaw ==
    /\ main.pc = "enable_raw"
    /\ \E ok \in BOOLEAN :
        MainStep(IF ok THEN [advance(main, "enable_raw", "enter_alt") EXCEPT !.raw = TRUE]
                 ELSE fail(main, "enable_raw"), NoKey, None)

MainEnterAlt ==
    /\ main.pc = "enter_alt"
    /\ \E ok \in BOOLEAN :
        MainStep(IF ok THEN [advance(main, "enter_alt", "new_terminal") EXCEPT !.alt = TRUE]
                 ELSE fail(main, "enter_alt"), NoKey, None)

MainNewTerminal ==
    /\ main.pc = "new_terminal"
    /\ \E ok \in BOOLEAN :
        MainStep(IF ok THEN advance(main, "new_terminal", "scan")
                 ELSE fail(main, "new_terminal"), NoKey, None)

MainScan ==
    /\ main.pc = "scan"
    /\ \E n \in 0..MaxBooks :
        MainStep([advance(main, "scan", "is_empty") EXCEPT
                     !.should_quit = FALSE, !.selected = 0, !.books = Catalogue(n)],
                 NoKey, None)

MainIsEmpty ==
    /\ main.pc = "is_empty"
    /\ MainStep(advance(main, "is_empty",
                        IF main.books = <<>> THEN "empty_disable_raw" ELSE "while"),
                NoKey, None)

MainEmptyDisableRaw ==
    /\ main.pc = "empty_disable_raw"
    /\ \E ok \in BOOLEAN :
        MainStep(IF ok THEN [advance(main, "empty_disable_raw", "empty_leave_alt") EXCEPT !.raw = FALSE]
                 ELSE fail(main, "empty_disable_raw"), NoKey, None)

\* LeaveAlternateScreen, then println! of the message: the first can fail, and
\* println! panics when the write to stdout fails
MainEmptyLeaveAlt ==
    /\ main.pc = "empty_leave_alt"
    /\ \E o \in {"ok", "err", "panic"} :
        MainStep(CASE o = "ok" ->
                        [advance(main, "empty_leave_alt", "done") EXCEPT !.alt = FALSE, !.exit = "ok"]
                   [] o = "err" -> fail(main, "empty_leave_alt")
                   [] o = "panic" ->
                        [panic(main, "empty_leave_alt") EXCEPT !.alt = FALSE],
                 NoKey, None)

MainWhile ==
    /\ main.pc = "while"
    /\ MainStep(advance(main, "while",
                        IF while_condition(main) THEN "draw" ELSE "disable_raw"),
                NoKey, None)

MainDraw ==
    /\ main.pc = "draw"
    /\ \E ok \in BOOLEAN :
        MainStep(IF main.books # <<>> /\ ~get(main.books, main.selected).some
                 THEN panic(main, "draw")
                 ELSE IF ok THEN advance(main, "draw", "poll")
                 ELSE fail(main, "draw"), NoKey, None)

MainPoll ==
    /\ main.pc = "poll"
    /\ \E r \in {"err", "ready", "timeout"} :
        MainStep(CASE r = "err" -> fail(main, "poll")
                   [] r = "ready" -> advance(main, "poll", "read")
                   [] OTHER -> advance(main, "poll", "while"), NoKey, None)

MainRead ==
    /\ main.pc = "read"
    /\ \E r \in {"err", "resize"} \cup MainKeys :
        CASE r = "err" -> MainStep(fail(main, "read"), NoKey, None)
          [] r = "resize" -> MainStep(advance(main, "read", "while"), NoKey, None)
          [] r = "Enter" ->
                LET b == get(main.books, main.selected) IN
                IF b.some THEN MainStep(advance(main, "key", "while"), r, b)
                ELSE MainStep(panic(main, "key"), r, None)
          [] OTHER ->
                MainStep([advance(main_key(r, main), "key", "while") EXCEPT
                             !.was_quit = main.should_quit], r, None)

MainDisableRaw ==
    /\ main.pc = "disable_raw"
    /\ \E ok \in BOOLEAN :
        MainStep(IF ok THEN [advance(main, "disable_raw", "leave_alt") EXCEPT !.raw = FALSE]
                 ELSE fail(main, "disable_raw"), NoKey, None)

MainLeaveAlt ==
    /\ main.pc = "leave_alt"
    /\ \E ok \in BOOLEAN :
        MainStep(IF ok THEN [advance(main, "leave_alt", "done") EXCEPT !.alt = FALSE, !.exit = "ok"]
                 ELSE fail(main, "leave_alt"), NoKey, None)

MainNext ==
    \/ MainEnableRaw
    \/ MainEnterAlt
    \/ MainNewTerminal
    \/ MainScan
    \/ MainIsEmpty
    \/ MainEmptyDisableRaw
    \/ MainEmptyLeaveAlt
    \/ MainWhile
    \/ MainDraw
    \/ MainPoll
    \/ MainRead
    \/ MainDisableRaw
    \/ MainLeaveAlt

MainSpec == MainInit /\ [][MainNext]_vars

\* the steps main may still perform once should_quit is true
cleanup_steps == {"while", "disable_raw", "leave_alt"}

\* C19 (as stated): once the quit key has been handled the loop ends without
\* reading another event or drawing another frame, and when main has returned
\* the terminal is out of raw mode and out of the alternate screen.
C19_RestoredBeforeExit ==
    /\ main.pc # "idle" /\ main.was_quit => main.last \in cleanup_steps
    /\ main.pc = "done" /\ main.should_quit => ~main.raw /\ ~main.alt

\* C19 (amended): once the quit key has been handled the loop ends without
\* reading another event or drawing another frame; main then calls
\* disable_raw_mode and LeaveAlternateScreen in that order, and it returns Ok
\* only with the terminal restored.  If either call fails main returns that
\* error with the terminal not fully restored.
C19_QuitEndsLoopThenRestores ==
    /\ main.pc # "idle" /\ main.was_quit => main.last \in cleanup_steps
    /\ main.pc # "idle" /\ main.should_quit =>
          main.pc \in {"while", "disable_raw", "leave_alt", "done"}
    /\ main.pc = "done" /\ main.should_quit =>
          \/ main.exit = "ok" /\ main.last = "leave_alt" /\ ~main.raw /\ ~main.alt
          \/ main.exit = "err" /\ main.last = "disable_raw" /\ main.raw /\ main.alt
          \/ main.exit = "err" /\ main.last = "leave_alt" /\ ~main.raw /\ main.alt

\* main has returned Ok after 'q', having moved the selection first
C19_QuitAfterBrowsing ==
    /\ main.pc = "done"
    /\ main.should_quit
    /\ main.exit = "ok"
    /\ main.selected > 0

(***************************************************************************)
(* scan_epubs of src/scanner.rs: the recursive walk for EPUB files.        *)
(***************************************************************************)

\* "epub"
EPUB == <<101, 112, 117, 98>>

\* "Unknown"
Unknown == <<85, 110, 107, 110, 111, 119, 110>>

\* names on the scanned disk: the directories "L", "s" and "d.epub", and the
\* files "a.epub", "B.EPUB", "c.txt", ".epub", "epub", "e.epub.bak" and
\* "\xFF.epub" (a name that is not UTF-8)
nLib == <<76>>
nSub == <<115>>
nDeep == <<100, 46, 101, 112, 117, 98>>
fLower == <<97, 46, 101, 112, 117, 98>>
fUpper == <<66, 46, 69, 80, 85, 66>>
fText == <<99, 46, 116, 120, 116>>
fDotFile == <<46, 101, 112, 117, 98>>
fNoDot == <<101, 112, 117, 98>>
fBackup == <<101, 46, 101, 112, 117, 98, 46, 98, 97, 107>>
fNotUtf8 == <<255, 46, 101, 112, 117, 98>>

FileNames == {fLower, fUpper, fText, fDotFile, fNoDot, fBackup, fNotUtf8}

\* a directory that exists with these children but cannot be listed; paths
\* through it still resolve
Locked(children) == [ok |-> FALSE, children |-> children]

\* the disk: /L holds the files x and y around the directory s, /L/s holds
\* the file z and the directory d.epub, which holds the file x
ScanTree(x, y, z, locked) ==
    (Root :> Dir(<<Child(nLib, "dir")>>))
    @@ (<<nLib>> :> Dir(<<Child(x, "file"), Child(nSub, "dir"), Child(y, "file")>>))
    @@ (<<nLib, nSub>> :>
            IF locked THEN Locked(<<Child(z, "file"), Child(nDeep, "dir")>>)
            ELSE Dir(<<Child(z, "file"), Child(nDeep, "dir")>>))
    @@ (<<nLib, nSub, nDeep>> :> Dir(<<Child(x, "file")>>))

\* the locations handed to scan_epubs: directories, a file, a missing path,
\* the empty path
ScanLocations(x) ==
    {Root, <<nLib>>, <<nLib, nSub>>, <<nLib, nSub, nDeep>>, <<nLib, x>>, <<nSub>>,
     EmptyPath}

\* Path::exists
exists(t, p) == resolve(t, p).some

\* Path::is_dir
is_dir(t, p) == resolve(t, p).some /\ resolve(t, p).val \in DOMAIN t

\* Path::file_name: none for the root, for the empty path and for a path that
\* ends in ".."
file_name(p) ==
    IF p = Root \/ p = EmptyPath \/ p[Len(p)] = DotDot THEN None
    ELSE Some(p[Len(p)])

\* Path::extension: the part of the file name after its last dot; none if
\* there is no dot or the only dot is the first byte
extension(p) ==
    IF ~file_name(p).some THEN None
    ELSE LET name == file_name(p).val
             dots == {i \in 1..Len(name) : name[i] = DOT}
         IN  IF dots = {} THEN None
             ELSE LET k == CHOOSE i \in dots : \A j \in dots : j <= i
                  IN  IF k = 1 THEN None
                      ELSE Some(SubSeq(name, k + 1, Len(name)))

\* OsStr::to_str: none unless the bytes are UTF-8, that is, unless the lossy
\* conversion has nothing to replace
to_str(s) ==
    IF s.some /\ to_string_lossy(s.val) = s.val THEN s ELSE None

\* str::eq_ignore_ascii_case
eq_ignore_ascii_case(a, b) ==
    /\ Len(a) = Len(b)
    /\ \A i \in 1..Len(a) : to_ascii_lowercase(a[i]) = to_ascii_lowercase(b[i])

\* a mutant of is_epub: the extension is compared byte for byte
is_epub_case_sensitive(p) ==
    LET ext == to_str(extension(p))
    IN  IF ext.some THEN ext.val = EPUB ELSE FALSE

\* the filter closure: is the extension "epub", ignoring ASCII case?
is_epub(p) ==
    LET ext == to_str(extension(p))
    IN  IF ext.some THEN eq_ignore_ascii_case(ext.val, EPUB) ELSE FALSE

\* the map closure: the Book of an entry
to_book(p) ==
    LET name == to_str(file_name(p))
    IN  Book(IF name.some THEN name.val ELSE Unknown, p)

RECURSIVE walk(_, _)
RECURSIVE walk_children(_, _, _)

\* WalkDir::new(p).into_iter().filter_map(|e| e.ok()): the entry itself, then
\* what is below it in directory order; a path that does not exist and a
\* directory that cannot be read each yield an error, which is dropped
walk(t, p) ==
    IF ~exists(t, p) THEN <<>>
    ELSE <<p>> \o (IF is_dir(t, p) /\ t[resolve(t, p).val].ok
                   THEN walk_children(t, p, t[resolve(t, p).val].children)
                   ELSE <<>>)

walk_children(t, p, cs) ==
    IF cs = <<>> THEN <<>>
    ELSE walk(t, join(p, Head(cs).name)) \o walk_children(t, p, Tail(cs))

RECURSIVE filter_map_books(_)

\* .filter(is_epub).map(to_book).collect()
filter_map_books(ps) ==
    IF ps = <<>> THEN <<>>
    ELSE (IF is_epub(Head(ps)) THEN <<to_book(Head(ps))>> ELSE <<>>)
         \o filter_map_books(Tail(ps))

\* pub fn scan_epubs
scan_epubs(t, location) ==
    IF ~exists(t, location) \/ ~is_dir(t, location) THEN <<>>
    ELSE filter_map_books(walk(t, location))

ScanInit ==
    /\ fs = 1
    /\ state = TuiState_new(<<>>, <<>>, None, 1)
    /\ prev = state
    /\ key = NoKey
    /\ call = "scan"
    /\ ret = None
    /\ opened = None
    /\ reloaded = FALSE
    /\ popup_new = FALSE
    /\ main = Idle
    /\ config = Idle
    /\ \E x \in FileNames, y \in FileNames, z \in FileNames, locked \in BOOLEAN :
        /\ x # y
        /\ \E location \in ScanLocations(x) :
            scan = [pc |-> "call", tree |-> ScanTree(x, y, z, locked),
                    location |-> location, result |-> <<>>]

\* one call of scan_epubs
ScanCall ==
    /\ scan.pc = "call"
    /\ scan' = [scan EXCEPT !.pc = "returned",
                            !.result = scan_epubs(scan.tree, scan.location)]
    /\ UNCHANGED <<state, prev, key, call, ret, opened, reloaded, popup_new, fs,
                   main, config>>

ScanNext == ScanCall

ScanSpec == ScanInit /\ [][ScanNext]_vars

\* every path that exists in the tree
on_disk(t) ==
    {Root} \cup UNION {{join(d, t[d].children[i].name) : i \in 1..Len(t[d].children)} :
                          d \in DOMAIN t}

\* p is at or below q
at_or_below(p, q) == Len(q) <= Len(p) /\ SubSeq(p, 1, Len(q)) = q

\* the name ends in a dot and the letters e, p, u, b in either case, after
\* at least one other byte
ends_in_dot_epub(name) ==
    /\ Len(name) > 5
    /\ name[Len(name) - 4] = DOT
    /\ name[Len(name) - 3] \in {101, 69}
    /\ name[Len(name) - 2] \in {112, 80}
    /\ name[Len(name) - 1] \in {117, 85}
    /\ name[Len(name)] \in {98, 66}

\* the paths of the Books returned
result_paths == {scan.result[i].path : i \in 1..Len(scan.result)}

\* C20 (as stated): for a missing location or one that is not a directory the
\* result is empty; otherwise it holds exactly one Book for every entry
\* anywhere under the location whose extension is "epub" ignoring ASCII case,
\* and no other Book.
C20_OneBookPerEpubUnderLocation ==
    scan.pc = "returned" =>
        IF scan.location \notin DOMAIN scan.tree \/ scan.location \notin on_disk(scan.tree)
        THEN scan.result = <<>>
        ELSE /\ Len(scan.result) = Cardinality(result_paths)
             /\ result_paths =
                    {p \in on_disk(scan.tree) :
                        /\ p # scan.location
                        /\ at_or_below(p, scan.location)
                        /\ ends_in_dot_epub(p[Len(p)])}

\* the entries the walk reaches: the location itself and every path below it
\* that has only readable directories between it and the location
reached(t, location) ==
    {p \in on_disk(t) :
        /\ at_or_below(p, location)
        /\ \A q \in DOMAIN t :
              at_or_below(q, location) /\ at_or_below(p, q) /\ q # p => t[q].ok}

\* C20 (amended): for a missing location or one that is not a directory the
\* result is empty; otherwise it holds exactly one Book for every entry the
\* walk reaches whose extension is "epub" ignoring ASCII case, and no other
\* Book.  The walk reaches the location itself and everything below it
\* except what lies inside a directory that cannot be read, be that the
\* location itself or a directory below it.  A Book carries the entry's
\* path, and its file name unless that is not UTF-8.
C20_OneBookPerEpubReached ==
    scan.pc = "returned" =>
        IF scan.location \notin DOMAIN scan.tree \/ scan.location \notin on_disk(scan.tree)
        THEN scan.result = <<>>
        ELSE /\ Len(scan.result) = Cardinality(result_paths)
             /\ result_paths =
                    {p \in reached(scan.tree, scan.location) :
                        p # Root /\ ends_in_dot_epub(p[Len(p)])}
             /\ \A i \in 1..Len(scan.result) :
                    LET b == scan.result[i]
                        name == b.path[Len(b.path)]
                    IN  b.name = IF \A j \in 1..Len(name) : name[j] < 128
                                 THEN name ELSE Unknown

\* a scan of /L that found an upper-case .EPUB and a lower-case .epub while
\* /L/s, which holds another one, could not be read
C20_MixedCaseWithLockedDirectory ==
    /\ scan.pc = "returned"
    /\ scan.location = <<nLib>>
    /\ ~scan.tree[<<nLib, nSub>>].ok
    /\ scan.tree[<<nLib, nSub>>].children[1].name = fLower
    /\ result_paths = {<<nLib, fUpper>>, <<nLib, fLower>>}

----------------------------------------------------------------------------
(* Config (src/config.rs): the command line and the initial catalogue.     *)

SLASH == 47

\* the command-line arguments, as the bytes the system hands over: "/L",
\* "/L/", "/L/s", "/L/./s", "/L/s/..", "/s" (a path that does not exist), the
\* empty string, "/\xFF" (not Unicode), "-h" and "--help".  A path argument is
\* absolute or empty.
argLib == <<47, 76>>
argLibSlash == <<47, 76, 47>>
argSub == <<47, 76, 47, 115>>
argDotted == <<47, 76, 47, 46, 47, 115>>
argUp == <<47, 76, 47, 115, 47, 46, 46>>
argMissing == <<47, 115>>
argEmpty == <<>>
argNotUnicode == <<47, 255>>
argH == <<45, 104>>
argHelp == <<45, 45, 104, 101, 108, 112>>

ArgStrings ==
    {argLib, argLibSlash, argSub, argDotted, argUp, argMissing, argEmpty,
     argNotUnicode, argH, argHelp}

MaxArgs == 3

\* the program name "funkhunt"; the name the program is started under can
\* also be one that is not Unicode, such as "\xFF" (nFF)
progName == <<102, 117, 110, 107, 104, 117, 110, 116>>

\* the arguments after the program name
ArgLists == UNION {[1..n -> ArgStrings] : n \in 0..MaxArgs}

\* the disks the paths are scanned on: one where every directory can be read
\* and /L holds "a.epub" and "B.EPUB", one where /L holds no EPUB file of its
\* own and /L/s cannot be read
ConfigTrees ==
    {ScanTree(fLower, fUpper, fLower, FALSE), ScanTree(fText, fNoDot, fLower, TRUE)}

\* struct Config
Config(scan_paths, show_help) == [scan_paths |-> scan_paths, show_help |-> show_help]

RECURSIVE components(_, _)

\* Path::components of an absolute path, after the root: the pieces between
\* slashes, where an empty piece and the piece "." are no component and ".."
\* and a name are one; cur is the piece being read
components(s, cur) ==
    IF s = <<>> THEN (IF cur = <<>> \/ cur = <<DOT>> THEN <<>> ELSE <<cur>>)
    ELSE IF Head(s) = SLASH
         THEN components(<<>>, cur) \o components(Tail(s), <<>>)
         ELSE components(Tail(s), Append(cur, Head(s)))

\* PathBuf::from
PathBuf_from(s) == IF s = <<>> THEN EmptyPath ELSE components(s, <<>>)

\* String::from_utf8 succeeds: the bytes are UTF-8, that is, the lossy
\* conversion has nothing to replace
is_unicode(s) == to_string_lossy(s) = s

\* the outcome of a call that panics
Panic == [panic |-> TRUE]

\* Vec::contains
contains(v, x) == \E i \in 1..Len(v) : v[i] = x

\* Config::from_args, given the command line argv, program name first:
\* std::env::args() converts every element of it, the program name that
\* skip(1) drops included, and panics on one that is not Unicode while the
\* arguments are collected, before any of them is looked at
from_args(argv) ==
    LET args == IF argv = <<>> THEN <<>> ELSE Tail(argv)
    IN  IF \E i \in 1..Len(argv) : ~is_unicode(argv[i]) THEN Panic
        ELSE IF args = <<>> THEN Config(<<>>, FALSE)
        ELSE IF contains(args, argH) \/ contains(args, argHelp)
             THEN Config(<<>>, TRUE)
        ELSE Config([i \in 1..Len(args) |-> PathBuf_from(args[i])], FALSE)

RECURSIVE scan_loop_skips_after_empty(_, _, _)

\* a mutant of scan_loop: the loop ends at the first path that yields no book
scan_loop_skips_after_empty(t, paths, all_books) ==
    IF paths = <<>> \/ scan_epubs(t, Head(paths)) = <<>> THEN all_books
    ELSE scan_loop_skips_after_empty(t, Tail(paths),
                                     all_books \o scan_epubs(t, Head(paths)))

RECURSIVE scan_loop(_, _, _)

\* for path in &self.scan_paths { all_books.append(&mut scan_epubs(path)) }
scan_loop(t, paths, all_books) ==
    IF paths = <<>> THEN all_books
    ELSE scan_loop(t, Tail(paths), all_books \o scan_epubs(t, Head(paths)))

\* Config::scan_all_paths
scan_all_paths(c, t) == scan_loop(t, c.scan_paths, <<>>)

ConfigInit ==
    /\ fs = 1
    /\ state = TuiState_new(<<>>, <<>>, None, 1)
    /\ prev = state
    /\ key = NoKey
    /\ call = "config"
    /\ ret = None
    /\ opened = None
    /\ reloaded = FALSE
    /\ popup_new = FALSE
    /\ main = Idle
    /\ scan = Idle
    /\ \E program \in {progName, nFF}, args \in ArgLists, t \in ConfigTrees :
          config = [pc |-> "args", program |-> program, args |-> args, tree |-> t,
                    parsed |-> Config(<<>>, FALSE), all_books |-> <<>>]

\* Config::from_args is called: it returns a Config, or panics and the
\* process ends
CallFromArgs ==
    /\ config.pc = "args"
    /\ LET argv == <<config.program>> \o config.args
       IN  config' = IF from_args(argv) = Panic
                     THEN [config EXCEPT !.pc = "panicked"]
                     ELSE [config EXCEPT !.pc = "parsed", !.parsed = from_args(argv)]
    /\ UNCHANGED <<state, prev, key, call, ret, opened, reloaded, popup_new, fs,
                   main, scan>>

\* Config::scan_all_paths is called on the parsed Config
CallScanAllPaths ==
    /\ config.pc = "parsed"
    /\ config' = [config EXCEPT !.pc = "scanned",
                                !.all_books = scan_all_paths(config.parsed, config.tree)]
    /\ UNCHANGED <<state, prev, key, call, ret, opened, reloaded, popup_new, fs,
                   main, scan>>

ConfigNext == CallFromArgs \/ CallScanAllPaths

ConfigSpec == ConfigInit /\ [][ConfigNext]_vars

----------------------------------------------------------------------------
(* Claims C21 to C30 *)

\* what scan_epubs returns for the i-th configured path
scan_of(i) == scan_epubs(config.tree, config.parsed.scan_paths[i])

RECURSIVE books_before(_)

\* how many books the paths before the i-th yield together
books_before(i) == IF i <= 1 THEN 0 ELSE books_before(i - 1) + Len(scan_of(i - 1))

\* C21: the catalogue scan_all_paths returns is the scan results of the
\* positional paths laid end to end in argument order: the books of the i-th
\* path sit right after those of the paths before it, and nothing else is in
\* it; a path that yields no book takes no room.  Without a help flag the
\* configured paths are the arguments, in order.
C21_CatalogueIsConcatenation ==
    /\ config.pc \in {"parsed", "scanned"} =>
          LET helped == contains(config.args, argH) \/ contains(config.args, argHelp)
          IN  /\ config.parsed.show_help = helped
              /\ Len(config.parsed.scan_paths) = IF helped THEN 0 ELSE Len(config.args)
              /\ \A i \in 1..Len(config.parsed.scan_paths) :
                    config.parsed.scan_paths[i] = PathBuf_from(config.args[i])
    /\ config.pc = "scanned" =>
          LET n == Len(config.parsed.scan_paths)
          IN  /\ Len(config.all_books) = books_before(n + 1)
              /\ \A i \in 1..n : \A k \in 1..Len(scan_of(i)) :
                    config.all_books[books_before(i) + k] = scan_of(i)[k]

\* C21 witness: three paths were scanned, the middle one yielding nothing and
\* the two around it yielding different books
C21_EmptyPathBetweenTwo ==
    /\ config.pc = "scanned"
    /\ Len(config.parsed.scan_paths) = 3
    /\ scan_of(1) # <<>>
    /\ scan_of(2) = <<>>
    /\ scan_of(3) # <<>>
    /\ scan_of(1) # scan_of(3)

min(a, b) == IF a < b THEN a ELSE b

max(a, b) == IF a < b THEN b ELSE a

RECURSIVE browser_downs(_, _)

\* k consecutive calls of FileBrowser::move_down
browser_downs(b, k) == IF k = 0 THEN b ELSE browser_downs(move_down(b), k - 1)

RECURSIVE catalogue_downs(_, _)

\* k consecutive calls of TuiState::move_selection_down
catalogue_downs(s, k) ==
    IF k = 0 THEN s ELSE catalogue_downs(move_selection_down(s), k - 1)

\* C22: over a list of length n with the cursor at 0, k move-down steps leave
\* the cursor at min(k, max(n-1, 0)) and a move-up leaves it at 0; every step
\* taken moves the cursor by one inside [0, max(n-1, 0)] or not at all, and
\* on an empty list every step leaves it at 0.  The same holds for the
\* catalogue cursor and for the browser cursor.
C22_DownStepsClampAtLast ==
    LET n == Len(state.books)
        m == Len(state.browser.entries)
        s0 == [state EXCEPT !.selected_index = 0]
        b0 == [state.browser EXCEPT !.selected_index = 0]
    IN  /\ \A k \in 0..(MaxLen + 1) :
              /\ catalogue_downs(s0, k).selected_index = min(k, max(n - 1, 0))
              /\ browser_downs(b0, k).selected_index = min(k, max(m - 1, 0))
        /\ move_selection_up(s0).selected_index = 0
        /\ move_up(b0).selected_index = 0
        /\ call = "both_down" =>
              /\ state.selected_index = min(prev.selected_index + 1, max(n - 1, 0))
              /\ state.browser.selected_index =
                    min(prev.browser.selected_index + 1, max(m - 1, 0))
        /\ (call = "both_up" /\ prev.selected_index = 0) => state.selected_index = 0
        /\ (call = "both_up" /\ prev.browser.selected_index = 0) =>
              state.browser.selected_index = 0
        /\ (call \in {"both_up", "both_down"} /\ n = 0) => state.selected_index = 0
        /\ (call \in {"both_up", "both_down"} /\ m = 0) =>
              state.browser.selected_index = 0

\* C22 witness: a run of down steps has just carried both cursors from 0 to
\* the last index of lists of several elements
C22_DownsReachedLast ==
    /\ call = "both_down"
    /\ Len(state.books) > 3
    /\ state.selected_index = Len(state.books) - 1
    /\ state.browser.selected_index = Len(state.browser.entries) - 1
    /\ prev.selected_index = state.selected_index - 1

\* what a reload of path leaves in entries, stated from the disk: the paths
\* of the non-hidden children whose metadata says directory, none if the path
\* cannot be read
paths_on_disk(path) ==
    LET listing == read_dir(fs, path)
    IN  {join(path, listing.children[i].name) :
            i \in {j \in 1..Len(listing.children) :
                      /\ listing.children[j].kind = "dir"
                      /\ ~starts_with_dot(listing.children[j].name)}}

\* C23: enter_selected with an entry at the cursor sets current_path to that
\* entry's path and reloads: the entries are read from the new path and the
\* cursor is 0.  With no entries it changes nothing and does not reload.
C23_EnterSelectedDescendsOrNothing ==
    call = "enter_selected" =>
        IF Len(prev.browser.entries) = 0
        THEN state.browser = prev.browser /\ ~reloaded
        ELSE /\ reloaded
             /\ state.browser.current_path =
                   prev.browser.entries[prev.browser.selected_index + 1].path
             /\ entry_paths(state.browser.entries) =
                   paths_on_disk(state.browser.current_path)
             /\ Len(state.browser.entries) =
                   Cardinality(paths_on_disk(state.browser.current_path))
             /\ state.browser.selected_index = 0

\* C23 witness: enter_selected, with the cursor off the first entry, moved
\* into a directory that has sub-directories
C23_EnteredFromMovedCursor ==
    /\ call = "enter_selected"
    /\ prev.browser.selected_index > 0
    /\ state.browser.current_path # prev.browser.current_path
    /\ Len(state.browser.entries) > 0

\* C24: go_up moves to the filesystem parent of the directory current_path
\* leads to and reloads: the entries are read from there and the cursor is 0.
\* Where that directory is the root, which has no parent, it changes nothing
\* and does not reload.  A path that leads nowhere has the parent Path::parent
\* gives.
C24_GoUpToFilesystemParent ==
    call = "go_up" =>
        LET t == FileSystems[fs]
            here == resolve(t, prev.browser.current_path)
            up == IF here.some THEN parent(here.val)
                  ELSE parent(prev.browser.current_path)
        IN  IF ~up.some
            THEN state.browser = prev.browser /\ ~reloaded
            ELSE /\ reloaded
                 /\ IF here.some
                    THEN resolve(t, state.browser.current_path) = up
                    ELSE state.browser.current_path = up.val
                 /\ entry_paths(state.browser.entries) =
                       paths_on_disk(state.browser.current_path)
                 /\ Len(state.browser.entries) =
                       Cardinality(paths_on_disk(state.browser.current_path))
                 /\ state.browser.selected_index = 0

\* C24 failing input: the browser started at $HOME = "/A/..", which is the
\* root, and go_up moved it down to "/A"
C24_WentUpFromRootIntoChild ==
    /\ call = "go_up"
    /\ reloaded
    /\ prev.browser.current_path = <<nA, DotDot>>
    /\ state.browser.current_path = <<nA>>
    /\ resolve(FileSystems[fs], prev.browser.current_path) = Some(Root)

\* C25: in every state reached by key events every entry of the browser is a
\* direct child of current_path, and a step that changes current_path has
\* reloaded the entries from the new path and put the cursor at 0.
C25_EntriesBelongToCurrentPath ==
    /\ \A i \in 1..Len(state.browser.entries) :
          /\ Len(state.browser.entries[i].path) = Len(state.browser.current_path) + 1
          /\ SubSeq(state.browser.entries[i].path, 1, Len(state.browser.current_path))
                = state.browser.current_path
    /\ state.browser.current_path # prev.browser.current_path =>
          /\ reloaded
          /\ state.browser.selected_index = 0
          /\ entry_paths(state.browser.entries) =
                paths_on_disk(state.browser.current_path)

\* C25 witness: in the popup, with the cursor off the first entry, Right or
\* 'l' moved the browser into a directory that has sub-directories
C25_DescendedByKey ==
    /\ key \in {"Right", "l"}
    /\ prev.mode = "AddingFolder"
    /\ prev.browser.selected_index > 0
    /\ state.browser.current_path # prev.browser.current_path
    /\ Len(state.browser.entries) > 0

\* C26: selected_book returns the book at selected_index when selected_index
\* is below books.len() and None otherwise, for every index; the call that
\* makes it (Enter in Normal mode) leaves the state as it was; and in every
\* state reached by key events it returns None exactly when there are no
\* books.
C26_SelectedBookIsPureLookup ==
    /\ \A i \in 0..(MaxBooks + 1) :
          selected_book([state EXCEPT !.selected_index = i]) =
             IF i < Len(state.books) THEN Some(state.books[i + 1]) ELSE None
    /\ (key = "Enter" /\ prev.mode = "Normal") =>
          /\ state = prev
          /\ opened = IF prev.selected_index < Len(prev.books)
                      THEN Some(prev.books[prev.selected_index + 1])
                      ELSE None
    /\ (selected_book(state) = None) <=> (Len(state.books) = 0)

\* C26 witness: Enter in Normal mode looked up the last of several books
C26_LookedUpLastBook ==
    /\ key = "Enter"
    /\ prev.mode = "Normal"
    /\ Len(prev.books) > 1
    /\ prev.selected_index = Len(prev.books) - 1
    /\ opened = Some(prev.books[Len(prev.books)])

\* the keys with a match arm of their own in each mode
BoundKeys(mode) ==
    IF mode = "Normal" THEN {"q", "Up", "Down", "Enter", "a"}
    ELSE {"Up", "Down", "Enter", "Right", "l", "Left", "h", "Esc"}

\* C27: a key with no binding in the current mode returns no action and
\* leaves the mode, books, selected_index, should_quit, scan_paths and the
\* whole browser unchanged; nothing is opened or reloaded.  So it is for 'q'
\* and 'a' in AddingFolder mode and for Esc in Normal mode.
C27_UnboundKeyIsNoOp ==
    /\ (key \in Keys /\ key \notin BoundKeys(prev.mode)) =>
          /\ ret = None
          /\ state = prev
          /\ opened = None
          /\ ~reloaded
    /\ {"q", "a"} \cap BoundKeys("AddingFolder") = {}
    /\ "Esc" \notin BoundKeys("Normal")

\* C27 witness: 'q' pressed in the popup with the browser cursor moved
C27_QuitKeyInPopup ==
    /\ key = "q"
    /\ prev.mode = "AddingFolder"
    /\ prev.browser.selected_index > 0
    /\ ~prev.should_quit

\* C28: a key event handled in AddingFolder mode changes none of books,
\* selected_index, should_quit and scan_paths; only the mode and the browser
\* can differ afterwards.
C28_PopupLeavesCatalogueAlone ==
    (key \in Keys /\ prev.mode = "AddingFolder") =>
        /\ state.books = prev.books
        /\ state.selected_index = prev.selected_index
        /\ state.should_quit = prev.should_quit
        /\ state.scan_paths = prev.scan_paths
        /\ state = [prev EXCEPT !.mode = state.mode, !.browser = state.browser]

\* C28 witness: confirm pressed in the popup while a book other than the
\* first was selected in the catalogue
C28_ConfirmWithBookSelected ==
    /\ key = "Enter"
    /\ prev.mode = "AddingFolder"
    /\ prev.selected_index > 0
    /\ Len(prev.scan_paths) > 0
    /\ ret.some
    /\ state.mode = "Normal"

\* C29: in Normal mode the Up, Down, Enter and 'q' keys leave the browser and
\* the mode as they were; no key but 'a' changes the browser there, and 'a'
\* leaves its current_path as it was, changing only entries and cursor.
C29_NormalModeBrowserFrame ==
    /\ (key \in {"Up", "Down", "Enter", "q"} /\ prev.mode = "Normal") =>
          /\ state.browser = prev.browser
          /\ state.mode = prev.mode
          /\ ~reloaded
    /\ (key \in Keys \ {"a"} /\ prev.mode = "Normal") =>
          state.browser = prev.browser
    /\ (key = "a" /\ prev.mode = "Normal") =>
          state.browser.current_path = prev.browser.current_path

\* C29 witness: 'a' pressed in Normal mode with the browser below the root
\* and its cursor moved, on a disk that changed since the entries were read
C29_ReopenedPopupOnChangedDisk ==
    /\ key = "a"
    /\ prev.mode = "Normal"
    /\ prev.browser.current_path # Root
    /\ prev.browser.selected_index > 0
    /\ state.browser.entries # prev.browser.entries

\* the state with the browser cursor put at i
with_cursor(s, i) == [s EXCEPT !.browser.selected_index = i]

\* C30: the action confirm emits does not depend on the browser cursor: from
\* two popup states that differ only in the cursor, Enter returns the same
\* AddFolder action, the one for current_path; Up and Down, the keys that
\* move the cursor, leave current_path alone; and the path emitted is never
\* that of the highlighted sub-directory.
C30_ActionIndependentOfCursor ==
    /\ state.mode = "AddingFolder" =>
          /\ \A i \in 0..Len(state.browser.entries) :
                /\ handle_key_event("Enter", with_cursor(state, i), fs).ret =
                      handle_key_event("Enter", state, fs).ret
                /\ handle_key_event("Enter", with_cursor(state, i), fs).ret =
                      Some(AddFolder(state.browser.current_path))
          /\ \A k \in {"Up", "Down"} :
                handle_key_event(k, state, fs).state.browser.current_path =
                   state.browser.current_path
    /\ (key = "Enter" /\ prev.mode = "AddingFolder") =>
          /\ ret = Some(AddFolder(prev.browser.current_path))
          /\ \A i \in 1..Len(prev.browser.entries) :
                ret.val.path # prev.browser.entries[i].path

\* C30 witness: confirm pressed with the cursor on the last of at least three
\* sub-directories, two or more Down keys away from where the popup opened
C30_ConfirmAfterSeveralDowns ==
    /\ key = "Enter"
    /\ prev.mode = "AddingFolder"
    /\ Len(prev.browser.entries) > 2
    /\ prev.browser.selected_index = Len(prev.browser.entries) - 1
    /\ ret.some

----------------------------------------------------------------------------
(* Claims C31 to C35 *)

\* C31: the browser location outlives the popup: confirm and cancel leave the
\* browser as it was, no key handled in Normal mode changes current_path, and
\* 'a' in Normal mode reopens the popup at that current_path with the entries
\* read afresh and the cursor at 0.  So closing the popup and pressing 'a'
\* comes back to the directory the popup was closed in.
C31_BrowserLocationPersists ==
    /\ (key \in {"Enter", "Esc"} /\ prev.mode = "AddingFolder") =>
          /\ state.mode = "Normal"
          /\ state.browser = prev.browser
    /\ (key \in Keys /\ prev.mode = "Normal") =>
          state.browser.current_path = prev.browser.current_path
    /\ (key = "a" /\ prev.mode = "Normal") =>
          /\ state.mode = "AddingFolder"
          /\ reloaded
          /\ state.browser.selected_index = 0
          /\ entry_paths(state.browser.entries) =
                paths_on_disk(state.browser.current_path)
    /\ state.mode = "AddingFolder" =>
          \A k \in {"Enter", "Esc"} :
             LET closed == handle_key_event(k, state, fs).state
                 reopened == handle_key_event("a", closed, fs).state
             IN  /\ closed.browser.current_path = state.browser.current_path
                 /\ reopened.mode = "AddingFolder"
                 /\ reopened.browser.current_path = state.browser.current_path
                 /\ reopened.browser.selected_index = 0
                 /\ entry_paths(reopened.browser.entries) =
                       paths_on_disk(state.browser.current_path)

\* C31 witness: 'a' pressed in Normal mode reopened the popup two levels below
\* the root, where an earlier popup session had left the browser
C31_ReopenedWhereClosed ==
    /\ key = "a"
    /\ prev.mode = "Normal"
    /\ Len(prev.browser.current_path) = 2
    /\ state.mode = "AddingFolder"
    /\ state.browser.current_path = prev.browser.current_path

\* the browser's entries are what its current_path holds on disk now
entries_are_current(b) == load_entries(b, fs).entries = b.entries

\* C32: with the entries current and the disk unchanged, enter_selected on an
\* entry followed by go_up brings back the current_path and the entries of
\* before the descent, and leaves the cursor at 0 wherever it was.
C32_DescendThenAscend ==
    (entries_are_current(state.browser) /\ enter_target(state.browser).some) =>
        LET below == enter_selected(state.browser, fs)
            back == go_up(below, fs)
        IN  /\ below.current_path =
                  state.browser.entries[state.browser.selected_index + 1].path
            /\ back.current_path = state.browser.current_path
            /\ back.entries = state.browser.entries
            /\ back.selected_index = 0

\* C32 witness: go_up has just come back from a sub-directory that is not the
\* first entry of its parent, on the disk the parent's entries were read from
C32_CameBackFromLaterEntry ==
    /\ call = "go_up"
    /\ reloaded
    /\ entries_are_current(state.browser)
    /\ \E i \in 2..Len(state.browser.entries) :
          state.browser.entries[i].path = prev.browser.current_path
    /\ state.browser.selected_index = 0

\* the state a key leaves when handled in state s
after_key(k, s) == handle_key_event(k, s, fs).state

\* C33: from every state reached by key events at most two more key events
\* set should_quit: 'q' in Normal mode, and in AddingFolder mode Esc or Enter
\* followed by 'q'.  'q' handled in AddingFolder mode leaves should_quit as
\* it was.
C33_QuitWithinTwoKeys ==
    /\ state.mode = "Normal" => after_key("q", state).should_quit
    /\ state.mode = "AddingFolder" =>
          /\ \A k \in {"Esc", "Enter"} :
                /\ after_key(k, state).mode = "Normal"
                /\ after_key("q", after_key(k, state)).should_quit
          /\ after_key("q", state).should_quit = state.should_quit
    /\ (key = "q" /\ prev.mode = "Normal") => state.should_quit
    /\ (key = "q" /\ prev.mode = "AddingFolder") =>
          state.should_quit = prev.should_quit

\* C33 witness: 'q' set should_quit in Normal mode after a popup session that
\* had taken the browser two levels down and was then closed
C33_QuitAfterPopupClosed ==
    /\ key = "q"
    /\ prev.mode = "Normal"
    /\ ~prev.should_quit
    /\ state.should_quit
    /\ Len(prev.browser.current_path) = 2

\* where main stands once it is past the empty-catalogue exit
loop_steps == {"while", "draw", "poll", "read", "disable_raw", "leave_alt"}

\* C34: in main() of main.rs the loop is entered only with books, selected
\* stays within [0, books.len() - 1] whatever keys are read, and so neither
\* books[selected] of the details pane nor that of Enter is ever out of
\* bounds: main never panics at the draw or at the key match.
C34_IndexNeverOutOfBounds ==
    main.pc # "idle" =>
        /\ main.exit = "panic" => main.last \notin {"draw", "key"}
        /\ main.selected \in Nat
        /\ main.pc \in loop_steps =>
              /\ main.books # <<>>
              /\ main.selected <= Len(main.books) - 1
        /\ main.books # <<>> => main.selected <= Len(main.books) - 1
        /\ (main.last = "key" /\ key = "Enter") =>
              opened = Some(main.books[main.selected + 1])

\* C34 witness: Enter was read with the last of several books selected, after
\* the Down keys that led there
C34_EnterOnLastBook ==
    /\ main.pc = "while"
    /\ main.last = "key"
    /\ key = "Enter"
    /\ Len(main.books) > 1
    /\ main.selected = Len(main.books) - 1
    /\ opened = Some(main.books[Len(main.books)])

\* the path each path argument names
path_named(arg) ==
    CASE arg = argLib -> <<nLib>>
      [] arg = argLibSlash -> <<nLib>>
      [] arg = argSub -> <<nLib, nSub>>
      [] arg = argDotted -> <<nLib, nSub>>
      [] arg = argUp -> <<nLib, nSub, DotDot>>
      [] arg = argMissing -> <<nSub>>
      [] arg = argEmpty -> EmptyPath
      [] arg = argNotUnicode -> <<<<255>>>>

\* C35: once from_args has been called it has returned a Config: show_help
\* true and no scan paths whenever some argument is -h or --help, path
\* arguments or not; otherwise show_help false and scan_paths holding the
\* arguments as paths, in order, none for no arguments.
C35_HelpFlagWinsOverPaths ==
    config.pc \notin {"idle", "args"} =>
        /\ config.pc \in {"parsed", "scanned"}
        /\ IF \E i \in 1..Len(config.args) : config.args[i] \in {argH, argHelp}
           THEN config.parsed = Config(<<>>, TRUE)
           ELSE /\ config.parsed.show_help = FALSE
                /\ Len(config.parsed.scan_paths) = Len(config.args)
                /\ \A i \in 1..Len(config.args) :
                      config.parsed.scan_paths[i] = path_named(config.args[i])

\* C35 failing input: the command line held --help and then an argument that
\* is not Unicode, and from_args panicked instead of returning a Config
C35_HelpThenNonUnicodePanics ==
    /\ config.pc = "panicked"
    /\ config.program = progName
    /\ config.args = <<argHelp, argNotUnicode>>

====
